---- MODULE Spec2Model ----
(***************************************************************************)
(* Model of the automation workflow executor of src/src/automation:        *)
(* AutomationService.execute_workflow and the install / screenshot / both  *)
(* pipelines, run by concurrent requests.  Every request has its own       *)
(* AsyncSession (router.get_automation_service), so every call works on a  *)
(* private copy of the workflow row and the calls interleave at the awaits *)
(* of the code (database round trips and asyncio.sleep); subprocess.run is *)
(* blocking, so a device command is atomic with the code around it.        *)
(***************************************************************************)
EXTENDS Integers, Sequences, FiniteSets, TLC

\* Number of execute_workflow requests issued on the workflow.
MaxCalls == 2
\* Number of WorkflowLog commits that fail in a behaviour with failing commits.
MaxLogFaults == 1
\* Number of input commands (key, tap, text, launch) that exit non-zero in a
\* behaviour with failing input commands.
MaxExitFaults == 1
\* Number of update_workflow calls that change the workflow.
MaxUpdates == 2
\* Number of user accounts, and of sessions (logins) followed per account.
MaxUsers == 2
MaxSessions == 2
\* constants.py: INSTALLATION_TIMEOUT, and the literals of _wait_for_installation.
INSTALLATION_TIMEOUT == 300
check_interval == 5
progress_every == 10
\* A NULL column (started_at, completed_at are nullable DateTime columns).
NULL == 0
\* datetime.utcnow() as read by call c: a timestamp is identified by the call
\* that took it (a call reads the clock once for started_at and once for
\* completed_at), so it is never NULL and differs from call to call.
utcnow(c) == c

Calls == 1..MaxCalls

WorkflowType == {"install", "screenshot", "both"}
WorkflowStatus == {"pending", "running", "completed", "failed", "cancelled"}
Fields == {"status", "started_at", "completed_at", "error_message"}

\* What one subprocess.run call can do: exit 0, exit non-zero (the code never
\* looks at returncode except in _check_emulator_status), or raise
\* TimeoutExpired.  Another exception of subprocess.run (OSError) is handled by
\* the same except clauses everywhere but in _check_emulator_status, the one
\* place where it is modelled apart.
CmdOutcomes == {"ok", "nonzero", "TimeoutExpired"}
IsException(o) == o \in {"TimeoutExpired", "OSError"}

VARIABLES
    workflow_type,    \* the workflow row's workflow_type (set by create_workflow)
    db,               \* the persisted workflow row: status, started_at, completed_at, error_message
    ui_play,          \* the emulator: whether its UI shows a Play / Uninstall control
    requests,         \* how many requests the clients issue in this behaviour
    persist_faults,   \* how many more commits of a WorkflowLog row fail in this behaviour
    exit_faults,      \* how many more input commands exit non-zero in this behaviour
    pc,               \* where each execute_workflow call stands
    force_restart,    \* the call's force_restart argument
    loaded,           \* the row as the call's session last loaded or flushed it
    orm,              \* the call's AutomationWorkflow object (its attributes)
    cmds,             \* the device commands the call has issued, in order (a UI probe is one entry)
    logs,             \* the WorkflowLog rows the call has persisted, in order
    log_persisted,    \* whether the call's latest _log_workflow_event persisted its row
    raised,           \* the exception the call is propagating, "None" when none
    emulator_status,  \* what _check_emulator_status returned to the call
    i,                \* the loop variable of _wait_for_installation
    installation_result, \* what _wait_for_installation returned
    probes,           \* what the UI probes of the call's poll returned, in order
    pm_output,        \* what "pm list packages" gave the call (result.stdout)
    screenshot_file,  \* the local screenshot file of the call
    cancel_answered,  \* the status the workflow had when a cancel request was answered, "None" before
    ui_dump,          \* the device's /sdcard/ui_dump.xml: "absent" or what it holds
    temp_file,        \* the local ui_dump_check_<second>.xml of the current second
    device_shot,      \* whether the device's /sdcard/screenshot.png exists
    last_outcomes,    \* how the commands and the read of the latest UI probe ended
    probe_results,    \* what the latest UI probe returned, then what its repetition returned
    captured,         \* whether a screenshot capture has returned or raised
    users,            \* the users table: role and is_active of every account, and who updated it last
    sessions,         \* the user_sessions table, by session_token: "none", "active" or "inactive" (is_active)
    expired,          \* the session tokens whose expires_at is past
    revoked,          \* by token: whether a logout that was to end its session has succeeded, and whose
    logout_call,      \* the logout_user call between its SELECT and its commit, if any
    refresh_result,   \* the latest refresh_access_token call: its token and how it ended
    callers,          \* the users who send workflow requests
    call_user,        \* the user of every execute_workflow call
    access,           \* the latest get_workflow or update_workflow request and how it ended
    updated_at,       \* how often update_workflow has written the workflow
    update_logs,      \* the number of "workflow_update" log rows
    login_call,       \* the login_user call between authenticate_user's check and its session, if any
    auth_result,      \* the latest login, refresh or authenticated request and how it ended
    deactivated       \* the accounts that deactivate_user or delete_user made inactive and activate_user has not activated since

callvars == <<pc, force_restart, loaded, orm, cmds, logs, log_persisted, raised,
              emulator_status, i, installation_result, probes, pm_output,
              screenshot_file>>
\* What the requests other than execute_workflow work on.
scratch == <<ui_dump, temp_file, device_shot, last_outcomes, probe_results, captured>>
accounts == <<users, sessions, expired, revoked, logout_call, refresh_result>>
workflow_access == <<callers, call_user, access, updated_at, update_logs>>
\* What the requests that authenticate an account work on.
activation == <<login_call, auth_result, deactivated>>
aside == <<cancel_answered, scratch, accounts, workflow_access, activation>>
vars == <<workflow_type, requests, db, ui_play, persist_faults, exit_faults,
          callvars, aside>>
\* Groups of variables that most steps leave alone.
fixed == <<workflow_type, requests, force_restart, exit_faults, aside>>
\* The same for a step of input commands, one of which may exit non-zero.
fixed_in_step == <<workflow_type, requests, force_restart, aside>>
\* The state of the executor, which the other requests leave alone.
executor == <<workflow_type, requests, db, ui_play, persist_faults, exit_faults,
              callvars>>
store == <<db, loaded, orm>>
install_vars == <<emulator_status, i, installation_result, probes>>
shot_vars == <<pm_output, screenshot_file>>

----------------------------------------------------------------------------
\* create_workflow: status pending, every nullable column NULL.
NewRow == [status |-> "pending", started_at |-> NULL, completed_at |-> NULL,
           error_message |-> "None"]

InitCalls ==
    /\ pc = [c \in Calls |-> "idle"]
    /\ force_restart = [c \in Calls |-> FALSE]
    /\ loaded = [c \in Calls |-> NewRow]
    /\ orm = [c \in Calls |-> NewRow]
    /\ cmds = [c \in Calls |-> <<>>]
    /\ logs = [c \in Calls |-> <<>>]
    /\ log_persisted = [c \in Calls |-> TRUE]
    /\ raised = [c \in Calls |-> "None"]
    /\ emulator_status = [c \in Calls |-> "None"]
    /\ i = [c \in Calls |-> 0]
    /\ installation_result = [c \in Calls |-> "None"]
    /\ probes = [c \in Calls |-> <<>>]
    /\ pm_output = [c \in Calls |-> "None"]
    /\ screenshot_file = [c \in Calls |-> "None"]

\* No probe and no capture made yet, no scratch file anywhere.
InitScratchFiles ==
    /\ ui_dump = "absent" /\ temp_file = "absent" /\ device_shot = FALSE
    /\ last_outcomes = <<>> /\ probe_results = <<>> /\ captured = FALSE

UserIds == 1..MaxUsers
UserRole == {"user", "moderator", "admin"}

\* A refresh token is a JWT made for a user at a login; verify_token gives back
\* the user it was made for (payload "sub").
Tokens == UserIds \X (1..MaxSessions)
TokenUser(t) == t[1]
\* Logout.refresh_token left out of the request (None).
NoToken == <<>>

\* Accounts as register_user makes them, nobody logged in.
InitAccounts ==
    /\ users = [u \in UserIds |-> [role |-> "user", is_active |-> TRUE, updated_by |-> 0]]
    /\ sessions = [t \in Tokens |-> "none"]
    /\ expired = {}
    /\ revoked = [t \in Tokens |-> "no"]
    /\ logout_call = <<>>
    /\ refresh_result = <<>>

\* The workflow is the workflow of user 1 (AutomationWorkflow.user_id).
Owner == 1

\* No get or update request yet; the calls come from the users cs.
InitWorkflowAccess(cs) ==
    /\ callers = cs
    /\ call_user = [c \in Calls |-> Owner]
    /\ access = <<>>
    /\ updated_at = 0
    /\ update_logs = 0

\* No login under way, no request answered, nobody deactivated.
InitActivation ==
    /\ login_call = <<>>
    /\ auth_result = <<>>
    /\ deactivated = {}

\* The workflow's owner is the only user who calls.
InitAside ==
    /\ cancel_answered = "None"
    /\ InitScratchFiles
    /\ InitAccounts
    /\ InitWorkflowAccess({Owner})
    /\ InitActivation

InitStore ==
    /\ InitAside
    /\ workflow_type \in WorkflowType
    /\ db = NewRow
    /\ ui_play \in BOOLEAN

\* Every commit of a log row succeeds and every input command exits 0 or times
\* out; the requests may overlap.
Init == InitStore /\ InitCalls /\ requests = MaxCalls /\ persist_faults = 0 /\ exit_faults = 0

\* One request, during which commits of log rows fail.
InitLogFail ==
    /\ InitStore /\ InitCalls /\ requests = 1
    /\ persist_faults = MaxLogFaults /\ exit_faults = 0

----------------------------------------------------------------------------
\* Session.commit of a dirty AutomationWorkflow: the UPDATE sets the attributes
\* whose value differs from the one the session loaded (SQLAlchemy writes net
\* changes only), and the session then holds what it wrote.
Flush(c) ==
    /\ db' = [f \in Fields |-> IF orm[c][f] # loaded[c][f] THEN orm[c][f] ELSE db[f]]
    /\ loaded' = [loaded EXCEPT ![c] = orm[c]]

\* Whether the commit of a WorkflowLog row succeeds.
PersistOutcomes == IF persist_faults > 0 THEN BOOLEAN ELSE {TRUE}

\* Variant of _log_workflow_event that reports a row as persisted without
\* adding it; C10_LastEntryMatchesWhenPersisted must tell it apart.
log_workflow_event_Lost(c, level, step_name) ==
    /\ log_persisted' = [log_persisted EXCEPT ![c] = TRUE]
    /\ UNCHANGED <<logs, persist_faults>>

\* _log_workflow_event: add the row and commit; a failure is logged and
\* swallowed ("Don't raise here to avoid breaking workflow execution"), and the
\* row is lost.  The failures followed are those that leave the session usable
\* for the commits that come after.
log_workflow_event(c, level, step_name) ==
    \E persisted \in PersistOutcomes :
        /\ logs' = [logs EXCEPT ![c] =
                      IF persisted
                      THEN Append(@, [log_level |-> level, step_name |-> step_name])
                      ELSE @]
        /\ log_persisted' = [log_persisted EXCEPT ![c] = persisted]
        /\ persist_faults' = IF persisted THEN persist_faults ELSE persist_faults - 1

\* The commands of a step that were issued: all of them, or those up to and
\* including the first one that raised.
RECURSIVE FirstException(_, _)
FirstException(outcomes, k) ==
    IF k > Len(outcomes) THEN 0
    ELSE IF IsException(outcomes[k]) THEN k
    ELSE FirstException(outcomes, k + 1)

Issued(names, outcomes) ==
    IF FirstException(outcomes, 1) = 0 THEN names
    ELSE SubSeq(names, 1, FirstException(outcomes, 1))

Raises(outcomes) == FirstException(outcomes, 1) # 0

Exception(outcomes) == outcomes[FirstException(outcomes, 1)]

Run(c, names, outcomes) ==
    cmds' = [cmds EXCEPT ![c] = @ \o Issued(names, outcomes)]

\* Variant of Raise without the except clause of execute_workflow: the
\* exception goes straight to the caller; C3_FailureRecordedBeforeRaise must
\* tell it apart.
Raise_Unrecorded(c, exc) ==
    /\ raised' = [raised EXCEPT ![c] = exc]
    /\ pc' = [pc EXCEPT ![c] = "ended"]

\* An exception leaves the pipeline: execute_workflow's except clause is next.
Raise(c, exc) ==
    /\ raised' = [raised EXCEPT ![c] = exc]
    /\ pc' = [pc EXCEPT ![c] = "except_commit"]

Goto(c, where) ==
    /\ pc' = [pc EXCEPT ![c] = where]
    /\ UNCHANGED raised

----------------------------------------------------------------------------
(* execute_workflow, up to the pipeline                                    *)

\* A request arrives (router.execute_workflow); requests are numbered in the
\* order of their arrival.
Request(c) ==
    /\ pc[c] = "idle"
    /\ c <= requests
    /\ \A earlier \in 1..(c - 1) : pc[earlier] # "idle"
    /\ \E f \in BOOLEAN : force_restart' = [force_restart EXCEPT ![c] = f]
    /\ \E u \in callers : call_user' = [call_user EXCEPT ![c] = u]
    /\ pc' = [pc EXCEPT ![c] = "get_workflow"]
    /\ UNCHANGED <<workflow_type, requests, db, ui_play, persist_faults,
                   exit_faults, loaded,
                   orm, cmds, logs, log_persisted, raised, install_vars, shot_vars,
                   cancel_answered, scratch, accounts, callers, access, updated_at,
                   update_logs, activation>>

\* Variant of AlreadyRunning without the check; C2_RejectedCallChangesNothing
\* must tell it apart.
AlreadyRunning_Unchecked(status, force) == FALSE

\* The check of execute_workflow on the row it has just loaded.
AlreadyRunning(status, force) == status = "running" /\ ~force

\* Variant of Owns that finds the workflow for any user; C20_OthersFindNothing
\* must tell it apart.
Owns_Anyone(u) == TRUE

\* The WHERE clause of get_workflow: the row is found for its owner only.
Owns(u) == u = Owner

\* get_workflow (a SELECT, awaited; WorkflowNotFoundError when it finds no
\* row), then the check and the assignments of execute_workflow up to its
\* first commit.
GetWorkflow(c) ==
    /\ pc[c] = "get_workflow"
    /\ IF ~Owns(call_user[c])
       THEN /\ raised' = [raised EXCEPT ![c] = "WorkflowNotFoundError"]
            /\ pc' = [pc EXCEPT ![c] = "ended"]
            /\ UNCHANGED <<loaded, orm>>
       ELSE IF AlreadyRunning(db.status, force_restart[c])
       THEN /\ loaded' = [loaded EXCEPT ![c] = db]
            /\ orm' = [orm EXCEPT ![c] = db]
            /\ raised' = [raised EXCEPT ![c] = "WorkflowAlreadyRunningError"]
            /\ pc' = [pc EXCEPT ![c] = "ended"]
       ELSE /\ loaded' = [loaded EXCEPT ![c] = db]
            /\ orm' = [orm EXCEPT ![c] = [db EXCEPT !.status = "running",
                                                   !.started_at = utcnow(c),
                                                   !.error_message = "None"]]
            /\ Goto(c, "commit_running")
    /\ UNCHANGED <<fixed, db, ui_play, persist_faults, cmds, logs, log_persisted,
                   install_vars, shot_vars>>

\* await self.db_session.commit() of the running status.
CommitRunning(c) ==
    /\ pc[c] = "commit_running"
    /\ Flush(c)
    /\ Goto(c, "log_start")
    /\ UNCHANGED <<fixed, ui_play, persist_faults, orm, cmds, logs, log_persisted,
                   install_vars, shot_vars>>

\* Variant of FirstStep that starts a workflow of type both with the
\* screenshot pipeline; C11_BothRunsInstallThenScreenshot must tell it apart.
FirstStep_ScreenshotFirst(type) ==
    IF type = "install" THEN "install.check_emulator"
    ELSE "screenshot.check_installation"

\* Variant of FirstStep that starts either pipeline at its second step;
\* C23_StepsInFixedOrder must tell it apart.
FirstStep_SkipsCheck(type) ==
    IF type = "screenshot" THEN "screenshot.reset_home" ELSE "install.reset_home"

FirstStep(type) ==
    IF type = "screenshot" THEN "screenshot.check_installation"
    ELSE "install.check_emulator"

\* The execution_start entry, then the dispatch on workflow_type.
LogStart(c) ==
    /\ pc[c] = "log_start"
    /\ log_workflow_event(c, "INFO", "execution_start")
    /\ Goto(c, FirstStep(workflow_type))
    /\ UNCHANGED <<fixed, store, ui_play, cmds, install_vars, shot_vars>>

----------------------------------------------------------------------------
(* _execute_install_workflow                                               *)

\* _check_emulator_status: "adb devices"; every failure is returned, none raised.
check_emulator_status(outcome, devices) ==
    IF outcome = "TimeoutExpired" THEN "ADB command timeout"
    ELSE IF outcome = "OSError" THEN "Unexpected error"
    ELSE IF outcome = "nonzero" THEN "ADB command failed"
    ELSE IF ~devices THEN "No emulator devices found"
    ELSE "available"

\* Variant of EmulatorAvailable that accepts every status;
\* C8_BridgeProbeFailureFailsRun must tell it apart.
EmulatorAvailable_Any(status) == TRUE

\* The test of _execute_install_workflow on the returned status.
EmulatorAvailable(status) == status = "available"

\* Step 1: check_emulator.
CheckEmulator(c) ==
    /\ pc[c] = "install.check_emulator"
    /\ log_workflow_event(c, "INFO", "check_emulator")
    /\ cmds' = [cmds EXCEPT ![c] = Append(@, "adb devices")]
    /\ \E outcome \in CmdOutcomes \cup {"OSError"}, devices \in BOOLEAN :
         LET status == check_emulator_status(outcome, devices) IN
         /\ emulator_status' = [emulator_status EXCEPT ![c] = status]
         /\ IF EmulatorAvailable(status)
            THEN Goto(c, "install.reset_home")
            ELSE Raise(c, "EmulatorNotAvailableError")
    /\ UNCHANGED <<fixed, store, ui_play, i, installation_result, probes, shot_vars>>

\* How many of the commands issued exited non-zero.
NonZeroExits(names, outcomes) ==
    Cardinality({k \in 1..Len(Issued(names, outcomes)) : outcomes[k] = "nonzero"})

\* Whether a step of input commands is left for the except clause: only an
\* exception does that, subprocess.run is called without check=True and no
\* returncode is read.
Fatal(outcomes) == Raises(outcomes)

\* A step that logs its name, runs its commands and raises what they raise.
CommandStep(c, step_name, names, outcomes, next) ==
    /\ NonZeroExits(names, outcomes) <= exit_faults
    /\ exit_faults' = exit_faults - NonZeroExits(names, outcomes)
    /\ log_workflow_event(c, "INFO", step_name)
    /\ Run(c, names, outcomes)
    /\ IF Fatal(outcomes) THEN Raise(c, Exception(outcomes)) ELSE Goto(c, next)

\* Step 2 of both pipelines: _reset_to_home_screen.
ResetHome(c) ==
    /\ pc[c] \in {"install.reset_home", "screenshot.reset_home"}
    /\ \E o \in CmdOutcomes :
         CommandStep(c, "reset_home", <<"keyevent 3">>, <<o>>,
                     IF pc[c] = "install.reset_home" THEN "install.open_play_store"
                     ELSE "screenshot.launch_game")
    /\ UNCHANGED <<fixed_in_step, store, ui_play, install_vars, shot_vars>>

\* Step 3: _open_google_play_store.
OpenPlayStore(c) ==
    /\ pc[c] = "install.open_play_store"
    /\ \E o \in CmdOutcomes :
         CommandStep(c, "open_play_store", <<"am start vending">>, <<o>>,
                     "install.search_game")
    /\ UNCHANGED <<fixed_in_step, store, ui_play, install_vars, shot_vars>>

\* Step 4: _search_lienquan_mobile (tap the search box, type, enter).  When it
\* returns, the store page of the game is what the device shows.
SearchGame(c) ==
    /\ pc[c] = "install.search_game"
    /\ \E o1, o2, o3 \in CmdOutcomes :
         CommandStep(c, "search_game",
                     <<"tap 1200 200", "text lienquan", "keyevent 66">>,
                     <<o1, o2, o3>>, "install.click_install")
    /\ UNCHANGED <<fixed_in_step, store, ui_play, install_vars, shot_vars>>

\* The taps of _click_install_button at (2117, 350).
InstallTaps == <<"tap 2117 350">>

\* Step 5: _click_install_button.
ClickInstall(c) ==
    /\ pc[c] = "install.click_install"
    /\ \E o \in CmdOutcomes :
         CommandStep(c, "click_install", InstallTaps, <<o>>,
                     "install.wait_installation")
    /\ UNCHANGED <<fixed_in_step, store, ui_play, install_vars, shot_vars>>

\* Step 6: the wait_installation entry; _wait_for_installation starts its loop.
WaitInstallation(c) ==
    /\ pc[c] = "install.wait_installation"
    /\ log_workflow_event(c, "INFO", "wait_installation")
    /\ i' = [i EXCEPT ![c] = 0]
    /\ Goto(c, "install.poll")
    /\ UNCHANGED <<fixed, store, ui_play, cmds, emulator_status,
                   installation_result, probes, shot_vars>>

\* What /sdcard/ui_dump.xml can hold when a probe starts: nothing, or the dump
\* of an earlier probe (of this service or of the luong1 script), with or
\* without a Play / Uninstall control in it.
DumpFiles == {"absent", "play", "other"}

\* How the read of the pulled file (open, read, lower, os.remove) can end.
ReadOutcomes == {"ok", "error"}

\* _check_app_installed: remove the old dump, dump the UI, pull the dump into
\* the local file, read it, remove the local file and look for the Play /
\* Uninstall control.  No returncode is looked at; an exception (of a command,
\* of open() when there is no local file, of the read) makes the probe return
\* False and leaves the local file where it is.  old is the dump file found on
\* the device, local the local file found, shown whether the UI shows the
\* control.  The value is what the probe returns, the two files after it, and
\* which file its boolean was computed from: the dump generated by this call
\* ("fresh"), a dump that was on the device before it ("stale"), a local file
\* that was there before it ("leftover"), or none.
ui_probe(rm, dump, pull, read, old, local, shown) ==
    LET after_rm == IF rm = "ok" THEN "absent" ELSE old
        after_dump == IF ~IsException(rm) /\ dump = "ok"
                      THEN (IF shown THEN "play" ELSE "other")
                      ELSE after_rm
        pulled == ~Raises(<<rm, dump, pull>>) /\ pull = "ok" /\ after_dump # "absent"
        after_pull == IF pulled THEN after_dump ELSE local
        was_read == /\ ~Raises(<<rm, dump, pull>>) /\ after_pull # "absent"
                    /\ read = "ok"
    IN  [result |-> was_read /\ after_pull = "play",
         raised |-> "None",
         read_from |-> IF ~was_read THEN "none"
                       ELSE IF ~pulled THEN "leftover"
                       ELSE IF ~IsException(rm) /\ dump = "ok" THEN "fresh"
                       ELSE "stale",
         ui_dump |-> after_dump,
         temp_file |-> IF was_read THEN "absent" ELSE after_pull]

\* The probe as the poll of an install run meets it: no local file of the same
\* second is there and the read goes well.
check_app_installed(rm, dump, pull, old, shown) ==
    ui_probe(rm, dump, pull, "ok", old, "absent", shown).result

total_checks == INSTALLATION_TIMEOUT \div check_interval

\* Whether the name `workflow` is bound where _wait_for_installation logs its
\* progress: it is neither a parameter nor a local nor a global of the module,
\* so evaluating workflow.id raises NameError.
WorkflowInScope == FALSE

\* Variant of Detected that never leaves the loop on a probe;
\* C22_PollTerminates must tell it apart.
Detected_Never(found) == FALSE

\* The test of the loop on what the probe returned.
Detected(found) == found

\* One iteration of the loop of _wait_for_installation, up to its sleep.
Poll(c) ==
    /\ pc[c] = "install.poll"
    /\ \E rm, dump, pull \in CmdOutcomes, old \in DumpFiles :
         LET found == check_app_installed(rm, dump, pull, old, ui_play) IN
         /\ cmds' = [cmds EXCEPT ![c] = Append(@, "ui probe")]
         /\ probes' = [probes EXCEPT ![c] = Append(@, found)]
         /\ IF Detected(found)
            THEN /\ installation_result' =
                       [installation_result EXCEPT ![c] = "INSTALL_SUCCESS"]
                 /\ Goto(c, "install.complete")
            ELSE /\ Goto(c, "install.sleep")
                 /\ UNCHANGED installation_result
    /\ UNCHANGED <<fixed, store, ui_play, persist_faults, logs, log_persisted,
                   emulator_status, i, shot_vars>>

\* After the sleep: the progress entry every tenth iteration, then the next
\* iteration or the end of the loop.  Every exception inside the function is
\* caught there and turned into the return value INSTALL_ERROR.
PollSleep(c) ==
    /\ pc[c] = "install.sleep"
    /\ LET stop(result) ==
             /\ installation_result' = [installation_result EXCEPT ![c] = result]
             /\ Goto(c, "install.complete")
             /\ UNCHANGED i
           continue ==
             IF i[c] + 1 < total_checks
             THEN /\ i' = [i EXCEPT ![c] = @ + 1]
                  /\ Goto(c, "install.poll")
                  /\ UNCHANGED installation_result
             ELSE stop("INSTALL_TIMEOUT")
       IN  IF i[c] % progress_every = 0
           THEN IF WorkflowInScope
                THEN log_workflow_event(c, "INFO", "installation_progress") /\ continue
                ELSE stop("INSTALL_ERROR")
                     /\ UNCHANGED <<logs, log_persisted, persist_faults>>
           ELSE continue /\ UNCHANGED <<logs, log_persisted, persist_faults>>
    /\ UNCHANGED <<fixed, store, ui_play, cmds, emulator_status, probes, shot_vars>>

\* The workflow_complete entry and the return of _execute_install_workflow; in
\* a workflow of type both, _execute_both_workflow goes on with the screenshot
\* pipeline.
InstallComplete(c) ==
    /\ pc[c] = "install.complete"
    /\ log_workflow_event(c, "INFO", "workflow_complete")
    /\ Goto(c, IF workflow_type = "both" THEN "screenshot.check_installation"
               ELSE "commit_completed")
    /\ UNCHANGED <<fixed, store, ui_play, cmds, install_vars, shot_vars>>

----------------------------------------------------------------------------
(* _execute_screenshot_workflow                                            *)

\* "pm list packages": its output lists the package or not; when the command
\* raises there is no output.
PmOutputs == {"kgvn listed", "kgvn absent"}

\* _check_lienquan_installed: 'kgvn' in result.stdout; an exception makes it
\* return False.
check_lienquan_installed(outcome, stdout) ==
    ~IsException(outcome) /\ stdout = "kgvn listed"

\* Variant of IsInstalled that goes on whatever the check returned;
\* C9_AbsentPackageFailsRun must tell it apart.
IsInstalled_Any(is_installed) == TRUE

\* The test of _execute_screenshot_workflow on the value returned.
IsInstalled(is_installed) == is_installed

\* Step 1: check_installation.
CheckInstallation(c) ==
    /\ pc[c] = "screenshot.check_installation"
    /\ log_workflow_event(c, "INFO", "check_installation")
    /\ cmds' = [cmds EXCEPT ![c] = Append(@, "pm list packages")]
    /\ \E o \in CmdOutcomes, stdout \in PmOutputs :
         /\ pm_output' = [pm_output EXCEPT ![c] =
                            IF IsException(o) THEN "TimeoutExpired" ELSE stdout]
         /\ IF IsInstalled(check_lienquan_installed(o, stdout))
            THEN Goto(c, "screenshot.reset_home")
            ELSE Raise(c, "ValueError")
    /\ UNCHANGED <<fixed, store, ui_play, install_vars, screenshot_file>>

\* Step 3: _find_and_launch_lienquan.
LaunchGame(c) ==
    /\ pc[c] = "screenshot.launch_game"
    /\ \E o \in CmdOutcomes :
         CommandStep(c, "launch_game", <<"am start kgvn">>, <<o>>,
                     "screenshot.wait_load")
    /\ UNCHANGED <<fixed_in_step, store, ui_play, install_vars, shot_vars>>

\* Step 4: the fixed settle delay.
WaitLoad(c) ==
    /\ pc[c] = "screenshot.wait_load"
    /\ log_workflow_event(c, "INFO", "wait_load")
    /\ Goto(c, "screenshot.take_screenshot")
    /\ UNCHANGED <<fixed, store, ui_play, cmds, install_vars, shot_vars>>

\* Step 5: _take_screenshot: screencap, pull, rm; an exception becomes
\* ScreenshotCaptureError, an exit status is not looked at.  The local file is
\* missing when the pull failed, and may be empty.
TakeScreenshot(c) ==
    /\ pc[c] = "screenshot.take_screenshot"
    /\ log_workflow_event(c, "INFO", "take_screenshot")
    /\ \E cap, pull, rm \in CmdOutcomes, size \in {"empty", "image"} :
         /\ Run(c, <<"screencap", "pull screenshot", "rm screenshot">>,
                <<cap, pull, rm>>)
         /\ IF Raises(<<cap, pull, rm>>)
            THEN /\ Raise(c, "ScreenshotCaptureError")
                 /\ UNCHANGED screenshot_file
            ELSE /\ Goto(c, "screenshot.save_screenshot")
                 /\ screenshot_file' = [screenshot_file EXCEPT ![c] =
                                          IF pull = "ok" THEN size ELSE "missing"]
    /\ UNCHANGED <<fixed, store, ui_play, install_vars, pm_output>>

\* Step 6: _save_screenshot_to_db: stat() of the file raises when it is
\* missing; the exception is re-raised after a rollback.
SaveScreenshot(c) ==
    /\ pc[c] = "screenshot.save_screenshot"
    /\ log_workflow_event(c, "INFO", "save_screenshot")
    /\ IF screenshot_file[c] = "missing"
       THEN Raise(c, "FileNotFoundError")
       ELSE Goto(c, "screenshot.complete")
    /\ UNCHANGED <<fixed, store, ui_play, cmds, install_vars, shot_vars>>

\* The workflow_complete entry and the return of _execute_screenshot_workflow.
ScreenshotComplete(c) ==
    /\ pc[c] = "screenshot.complete"
    /\ log_workflow_event(c, "INFO", "workflow_complete")
    /\ Goto(c, "commit_completed")
    /\ UNCHANGED <<fixed, store, ui_play, cmds, install_vars, shot_vars>>

----------------------------------------------------------------------------
(* execute_workflow, after the pipeline                                    *)

\* str(e) of the exception that left the pipeline (AutomationBaseException
\* puts its error code in front of the message).  The ValueError message is
\* written here without the diacritics it has in the source; the text of an
\* exception of subprocess.run or of stat() is stood for by the exception's name.
EmulatorNotAvailableText(status) ==
    IF status = "ADB command failed"
    THEN "[EMULATOR_NOT_AVAILABLE] Emulator not available: ADB command failed"
    ELSE IF status = "No emulator devices found"
    THEN "[EMULATOR_NOT_AVAILABLE] Emulator not available: No emulator devices found"
    ELSE IF status = "ADB command timeout"
    THEN "[EMULATOR_NOT_AVAILABLE] Emulator not available: ADB command timeout"
    ELSE "[EMULATOR_NOT_AVAILABLE] Emulator not available: Unexpected error"

ErrorMessage(c) ==
    IF raised[c] = "EmulatorNotAvailableError"
    THEN EmulatorNotAvailableText(emulator_status[c])
    ELSE IF raised[c] = "ValueError"
    THEN "Lien Quan Mobile is not installed"
    ELSE IF raised[c] = "ScreenshotCaptureError"
    THEN "[SCREENSHOT_CAPTURE_ERROR] Screenshot capture failed"
    ELSE raised[c]

\* The pipeline returned: status completed, completed_at, commit.
CommitCompleted(c) ==
    /\ pc[c] = "commit_completed"
    /\ orm' = [orm EXCEPT ![c] = [@ EXCEPT !.status = "completed",
                                          !.completed_at = utcnow(c)]]
    /\ db' = [f \in Fields |-> IF orm'[c][f] # loaded[c][f] THEN orm'[c][f] ELSE db[f]]
    /\ loaded' = [loaded EXCEPT ![c] = orm'[c]]
    /\ Goto(c, "log_complete")
    /\ UNCHANGED <<fixed, ui_play, persist_faults, cmds, logs, log_persisted,
                   install_vars, shot_vars>>

\* The execution_complete entry, then the return to the router.
LogComplete(c) ==
    /\ pc[c] = "log_complete"
    /\ log_workflow_event(c, "INFO", "execution_complete")
    /\ Goto(c, "ended")
    /\ UNCHANGED <<fixed, store, ui_play, cmds, install_vars, shot_vars>>

\* The except clause: status failed, error_message, completed_at, commit.
ExceptCommit(c) ==
    /\ pc[c] = "except_commit"
    /\ orm' = [orm EXCEPT ![c] = [@ EXCEPT !.status = "failed",
                                          !.error_message = ErrorMessage(c),
                                          !.completed_at = utcnow(c)]]
    /\ db' = [f \in Fields |-> IF orm'[c][f] # loaded[c][f] THEN orm'[c][f] ELSE db[f]]
    /\ loaded' = [loaded EXCEPT ![c] = orm'[c]]
    /\ Goto(c, "log_error")
    /\ UNCHANGED <<fixed, ui_play, persist_faults, cmds, logs, log_persisted,
                   install_vars, shot_vars>>

\* The execution_error entry, then the exception is raised again.
LogError(c) ==
    /\ pc[c] = "log_error"
    /\ log_workflow_event(c, "ERROR", "execution_error")
    /\ Goto(c, "ended")
    /\ UNCHANGED <<fixed, store, ui_play, cmds, install_vars, shot_vars>>

----------------------------------------------------------------------------
\* Where a call stands when it is still to look at the UI.
BeforeProbe == {"get_workflow", "commit_running", "log_start",
                "install.check_emulator", "install.reset_home",
                "install.open_play_store", "install.search_game",
                "install.click_install", "install.wait_installation",
                "install.poll", "install.sleep"}

\* The emulator's UI changes by itself (an installation finishes, another
\* screen comes up).  The changes are followed as long as some call may still
\* look at the UI.
DeviceChange ==
    /\ \E c \in Calls : pc[c] \in BeforeProbe /\ workflow_type # "screenshot"
    /\ ui_play' = ~ui_play
    /\ UNCHANGED <<workflow_type, requests, db, persist_faults, exit_faults,
                   callvars, aside>>

Step(c) ==
    \/ Request(c) \/ GetWorkflow(c) \/ CommitRunning(c) \/ LogStart(c)
    \/ CheckEmulator(c) \/ ResetHome(c) \/ OpenPlayStore(c) \/ SearchGame(c)
    \/ ClickInstall(c) \/ WaitInstallation(c) \/ Poll(c) \/ PollSleep(c)
    \/ InstallComplete(c)
    \/ CheckInstallation(c) \/ LaunchGame(c) \/ WaitLoad(c) \/ TakeScreenshot(c)
    \/ SaveScreenshot(c) \/ ScreenshotComplete(c)
    \/ CommitCompleted(c) \/ LogComplete(c) \/ ExceptCommit(c) \/ LogError(c)

Next == (\E c \in Calls : Step(c)) \/ DeviceChange

Spec == Init /\ [][Next]_vars

SpecLogFail == InitLogFail /\ [][Next]_vars

\* One request, during which an input command exits non-zero.
InitExit ==
    /\ InitStore /\ InitCalls /\ requests = 1
    /\ persist_faults = 0 /\ exit_faults = MaxExitFaults

SpecExit == InitExit /\ [][Next]_vars

\* One request whose call is always run on: the event loop resumes a coroutine
\* whose await is done, and every subprocess.run has a timeout.
InitPoll ==
    /\ InitStore /\ InitCalls /\ requests = 1
    /\ persist_faults = 0 /\ exit_faults = 0

SpecPoll == InitPoll /\ [][Next]_vars /\ WF_vars(\E c \in Calls : Step(c))

\* The request of a run that is not followed here (it is in its pipeline in
\* another worker, or its process died there).
EarlierRun == MaxCalls + 1

\* One request on a workflow that such an earlier run has left running.
InitRunning ==
    /\ InitAside
    /\ workflow_type \in WorkflowType
    /\ db = [NewRow EXCEPT !.status = "running", !.started_at = utcnow(EarlierRun)]
    /\ ui_play \in BOOLEAN
    /\ InitCalls /\ requests = 1 /\ persist_faults = 0 /\ exit_faults = 0

SpecRunning == InitRunning /\ [][Next]_vars

----------------------------------------------------------------------------
(* _check_app_installed and _take_screenshot on their scratch files        *)

\* A UI probe; the probes followed fall into one second of the clock, so that
\* they all name the same local file.
UIProbe ==
    \E rm, dump, pull \in CmdOutcomes, read \in ReadOutcomes :
        LET p == ui_probe(rm, dump, pull, read, ui_dump, temp_file, ui_play) IN
        /\ last_outcomes' = <<rm, dump, pull, read>>
        /\ probe_results' = <<[result |-> p.result, raised |-> p.raised,
                                    read_from |-> p.read_from]>>
        /\ ui_dump' = p.ui_dump
        /\ temp_file' = p.temp_file
        /\ UNCHANGED <<executor, activation, cancel_answered, accounts, workflow_access, device_shot, captured>>

\* The probe called again at once, its commands and its read ending as they
\* did in the call before, the UI being the same.
RepeatProbe ==
    /\ Len(probe_results) = 1
    /\ LET p == ui_probe(last_outcomes[1], last_outcomes[2], last_outcomes[3],
                         last_outcomes[4], ui_dump, temp_file, ui_play) IN
        /\ probe_results' = Append(probe_results,
                                   [result |-> p.result, raised |-> p.raised,
                                    read_from |-> p.read_from])
        /\ ui_dump' = p.ui_dump
        /\ temp_file' = p.temp_file
    /\ UNCHANGED <<executor, activation, cancel_answered, accounts, workflow_access, device_shot, last_outcomes,
                   captured>>

\* _take_screenshot on the device's scratch file: screencap writes it, rm
\* removes it when it is reached (no exception before it) and works.
take_screenshot_scratch(cap, pull, rm, before) ==
    LET after_cap == IF cap = "ok" THEN TRUE ELSE before
    IN  IF ~Raises(<<cap, pull, rm>>) /\ rm = "ok" THEN FALSE ELSE after_cap

Capture ==
    \E cap, pull, rm \in CmdOutcomes :
        /\ device_shot' = take_screenshot_scratch(cap, pull, rm, device_shot)
        /\ captured' = TRUE
        /\ UNCHANGED <<executor, activation, cancel_answered, accounts, workflow_access, ui_dump, temp_file,
                       last_outcomes, probe_results>>

NextScratch == UIProbe \/ RepeatProbe \/ Capture

\* No workflow is executed; the device shows the control or not and holds the
\* dump of an earlier probe or none.
InitScratch ==
    /\ workflow_type = "install" /\ db = NewRow /\ ui_play \in BOOLEAN
    /\ InitCalls /\ requests = 0 /\ persist_faults = 0 /\ exit_faults = 0
    /\ cancel_answered = "None" /\ InitAccounts /\ InitWorkflowAccess({Owner})
    /\ InitActivation
    /\ ui_dump \in DumpFiles /\ temp_file = "absent" /\ device_shot = FALSE
    /\ last_outcomes = <<>> /\ probe_results = <<>> /\ captured = FALSE

SpecScratch == InitScratch /\ [][NextScratch]_vars

----------------------------------------------------------------------------
(* router.cancel_workflow                                                  *)

\* POST /workflows/{id}/cancel: the call of the service is a TODO in a comment;
\* the route answers "Workflow cancelled successfully" and does nothing else
\* (it does not even load the workflow).  One cancel request is followed.
CancelWorkflow ==
    /\ cancel_answered = "None"
    /\ cancel_answered' = db.status
    /\ UNCHANGED <<executor, activation, scratch, accounts, workflow_access>>

NextCancel == Next \/ CancelWorkflow

\* One execute_workflow request and a cancel request.
InitCancel == InitStore /\ InitCalls /\ requests = 1 /\ persist_faults = 0 /\ exit_faults = 0

SpecCancel == InitCancel /\ [][NextCancel]_vars

----------------------------------------------------------------------------
(* auth/service.py: sessions, logout_user, refresh_access_token            *)

\* login_user: authenticate_user refuses a deactivated account;
\* create_user_session adds an active session with a new refresh token.
Login(u) ==
    /\ users[u].is_active
    /\ \E k \in 1..MaxSessions :
         /\ sessions[<<u, k>>] = "none"
         /\ \A j \in 1..(k - 1) : sessions[<<u, j>>] # "none"
         /\ sessions' = [sessions EXCEPT ![<<u, k>>] = "active"]
    /\ UNCHANGED <<executor, activation, cancel_answered, scratch, workflow_access, users, expired, revoked,
                   logout_call, refresh_result>>

\* The sessions that logout_user loads for user_id: with a token the session of
\* that token if it is a session of the user, without one (None or "") the
\* user's active sessions.
LogoutSelected(user_id, refresh_token) ==
    IF refresh_token # NoToken
    THEN {t \in {refresh_token} : sessions[t] # "none" /\ TokenUser(t) = user_id}
    ELSE {t \in Tokens : TokenUser(t) = user_id /\ sessions[t] = "active"}

\* logout_user up to the result of its SELECT.  The caller is the current user
\* of the route (an active account); the token is any token that was issued.
LogoutSelect(user_id, refresh_token) ==
    /\ logout_call = <<>>
    /\ users[user_id].is_active
    /\ refresh_token # NoToken => sessions[refresh_token] # "none"
    /\ logout_call' = <<[user_id |-> user_id, refresh_token |-> refresh_token,
                         selected |-> LogoutSelected(user_id, refresh_token),
                         existed |-> {t \in Tokens : TokenUser(t) = user_id
                                                     /\ sessions[t] # "none"}]>>
    /\ UNCHANGED <<executor, activation, cancel_answered, scratch, workflow_access, users, sessions, expired,
                   revoked, refresh_result>>

\* The tokens whose sessions a successful logout call was to end: the token it
\* was given, or every session its user had when it was called.
LogoutTargets(call) ==
    IF call.refresh_token # NoToken THEN {call.refresh_token} ELSE call.existed

\* logout_user from the assignments to its return of True: is_active = False on
\* the sessions loaded, commit.
LogoutCommit ==
    /\ logout_call # <<>>
    /\ LET call == logout_call[1] IN
        /\ sessions' = [t \in Tokens |->
                          IF t \in call.selected THEN "inactive" ELSE sessions[t]]
        /\ revoked' = [t \in Tokens |->
                         IF t \notin LogoutTargets(call) THEN revoked[t]
                         ELSE IF TokenUser(t) = call.user_id THEN "by_owner"
                         ELSE IF revoked[t] = "no" THEN "by_other"
                         ELSE revoked[t]]
    /\ logout_call' = <<>>
    /\ UNCHANGED <<executor, activation, cancel_answered, scratch, workflow_access, users, expired, refresh_result>>

\* Variant of refresh_access_token whose SELECT does not ask for is_active;
\* C18_OwnLogoutEndsRefresh must tell it apart.
refresh_access_token_AnySession(t) ==
    IF sessions[t] = "none" \/ t \in expired THEN "InvalidTokenError"
    ELSE IF ~users[TokenUser(t)].is_active THEN "AuthenticationError"
    ELSE "access_token"

\* refresh_access_token: the session of the token must exist, be active and
\* not be expired, else InvalidTokenError; the user must be active, else
\* AuthenticationError; else a new access token.
refresh_access_token(t) ==
    IF sessions[t] # "active" \/ t \in expired THEN "InvalidTokenError"
    ELSE IF ~users[TokenUser(t)].is_active THEN "AuthenticationError"
    ELSE "access_token"

\* A refresh request with a token that was issued.
Refresh(t) ==
    /\ sessions[t] # "none"
    /\ refresh_result' = <<[refresh_token |-> t, result |-> refresh_access_token(t)]>>
    /\ UNCHANGED <<executor, activation, cancel_answered, scratch, workflow_access, users, sessions, expired,
                   revoked, logout_call>>

\* Time passes: the expires_at of a session (seven days after the login) is past.
Expire(t) ==
    /\ sessions[t] # "none" /\ t \notin expired
    /\ expired' = expired \cup {t}
    /\ UNCHANGED <<executor, activation, cancel_answered, scratch, workflow_access, users, sessions, revoked,
                   logout_call, refresh_result>>

NextAuth ==
    \/ \E u \in UserIds : Login(u)
    \/ \E u \in UserIds, t \in Tokens \cup {NoToken} : LogoutSelect(u, t)
    \/ LogoutCommit
    \/ \E t \in Tokens : Refresh(t) \/ Expire(t)

\* No workflow is executed.
InitAuth ==
    /\ workflow_type = "install" /\ db = NewRow /\ ui_play = FALSE
    /\ InitCalls /\ requests = 0 /\ persist_faults = 0 /\ exit_faults = 0
    /\ InitAside

SpecAuth == InitAuth /\ [][NextAuth]_vars

----------------------------------------------------------------------------
(* users/service.py: update_user, change_user_role                         *)

\* _can_modify_user: an admin anyone, a moderator the regular users, a regular
\* user only themselves.
can_modify_user(current_user, target_user) ==
    CASE users[current_user].role = "admin" -> TRUE
      [] users[current_user].role = "moderator" -> users[target_user].role \in {"user"}
      [] OTHER -> current_user = target_user

\* The fields of UserUpdate that bear on accounts' rights, and the bodies a
\* request can carry: any of the fields set (exclude_unset) to any value.
\* A field left out of the body is "unset" (exclude_unset); bodies that set
\* neither field change nothing here.
UpdateData ==
    {d \in [role : UserRole \cup {"unset"}, is_active : {"true", "false", "unset"}] :
        d.role # "unset" \/ d.is_active # "unset"}

\* get_current_admin_user, the dependency of the role route.
IsAdminUser(current_user) == users[current_user].role \in {"admin", "moderator"}

\* PUT /users/{user_id}: any logged-in active user may call; update_user copies
\* every field of the body onto the row.
UpdateUser(current_user, user_id, update_data) ==
    /\ users[current_user].is_active
    /\ can_modify_user(current_user, user_id)
    /\ users' = [users EXCEPT ![user_id] =
                    [role |-> IF update_data.role # "unset"
                              THEN update_data.role ELSE @.role,
                     is_active |-> IF update_data.is_active # "unset"
                                   THEN update_data.is_active = "true" ELSE @.is_active,
                     updated_by |-> current_user]]
    /\ UNCHANGED <<executor, activation, cancel_answered, scratch, workflow_access, sessions, expired, revoked,
                   logout_call, refresh_result>>

\* The role route: get_current_admin_user, then change_user_role.
ChangeUserRole(current_user, user_id, new_role) ==
    /\ users[current_user].is_active
    /\ IsAdminUser(current_user)
    /\ can_modify_user(current_user, user_id)
    /\ user_id # current_user
    /\ users' = [users EXCEPT ![user_id] =
                    [role |-> new_role, is_active |-> @.is_active,
                     updated_by |-> current_user]]
    /\ UNCHANGED <<executor, activation, cancel_answered, scratch, workflow_access, sessions, expired, revoked,
                   logout_call, refresh_result>>

NextUsers ==
    \/ \E a \in UserIds, u \in UserIds, d \in UpdateData : UpdateUser(a, u, d)
    \/ \E a \in UserIds, u \in UserIds, r \in UserRole : ChangeUserRole(a, u, r)

\* Accounts of any roles (register_user takes the role from the request), active.
InitUsers ==
    /\ workflow_type = "install" /\ db = NewRow /\ ui_play = FALSE
    /\ InitCalls /\ requests = 0 /\ persist_faults = 0 /\ exit_faults = 0
    /\ cancel_answered = "None" /\ InitScratchFiles /\ InitWorkflowAccess({Owner})
    /\ InitActivation
    /\ users \in [UserIds -> {[role |-> r, is_active |-> TRUE, updated_by |-> 0] :
                                r \in UserRole}]
    /\ sessions = [t \in Tokens |-> "none"]
    /\ expired = {}
    /\ revoked = [t \in Tokens |-> "no"]
    /\ logout_call = <<>>
    /\ refresh_result = <<>>

SpecUsers == InitUsers /\ [][NextUsers]_vars

----------------------------------------------------------------------------
(* automation/service.py: get_workflow and update_workflow requests        *)

\* GET of the workflow by user u.
GetWorkflowRequest(u) ==
    /\ u \in callers
    /\ access' = <<[op |-> "get_workflow", user_id |-> u,
                    result |-> IF Owns(u) THEN "workflow" ELSE "WorkflowNotFoundError"]>>
    /\ UNCHANGED <<executor, activation, cancel_answered, scratch, accounts, callers, call_user,
                   updated_at, update_logs>>

\* The values AutomationWorkflowUpdate.status can have; "unset" when the body
\* leaves it out.
UpdateStatus == WorkflowStatus \cup {"unset"}

\* update_workflow by user u: get_workflow, the refusal for a running
\* workflow, the fields of the body and updated_at, commit, the log row.
UpdateWorkflow(u, status) ==
    /\ u \in callers
    /\ IF ~Owns(u)
       THEN /\ access' = <<[op |-> "update_workflow", user_id |-> u,
                            result |-> "WorkflowNotFoundError"]>>
            /\ UNCHANGED <<db, updated_at, update_logs>>
       ELSE IF db.status = "running"
       THEN /\ access' = <<[op |-> "update_workflow", user_id |-> u,
                            result |-> "WorkflowAlreadyRunningError"]>>
            /\ UNCHANGED <<db, updated_at, update_logs>>
       ELSE /\ updated_at < MaxUpdates
            /\ access' = <<[op |-> "update_workflow", user_id |-> u,
                            result |-> "workflow"]>>
            /\ db' = IF status = "unset" THEN db ELSE [db EXCEPT !.status = status]
            /\ updated_at' = updated_at + 1
            /\ update_logs' = update_logs + 1
    /\ UNCHANGED <<workflow_type, requests, ui_play, persist_faults, exit_faults,
                   callvars, cancel_answered, scratch, accounts, callers, call_user,
                   activation>>

NextAccess ==
    \/ Next
    \/ \E u \in UserIds : GetWorkflowRequest(u)
    \/ \E u \in UserIds, status \in UpdateStatus : UpdateWorkflow(u, status)

\* One execute request, and get and update requests, from any user.
InitAccess ==
    /\ cancel_answered = "None" /\ InitScratchFiles /\ InitAccounts
    /\ InitWorkflowAccess(UserIds)
    /\ InitActivation
    /\ workflow_type \in WorkflowType /\ db = NewRow /\ ui_play \in BOOLEAN
    /\ InitCalls /\ requests = 1 /\ persist_faults = 0 /\ exit_faults = 0

SpecAccess == InitAccess /\ [][NextAccess]_vars

----------------------------------------------------------------------------
(* deactivate_user, delete_user, activate_user and the requests that       *)
(* authenticate an account                                                 *)

\* The outcomes that count as a success of login_user, refresh_access_token
\* and get_current_user.
AuthSuccess == {"tokens", "access_token", "user"}

\* authenticate_user after its SELECT by email (the credentials are those of
\* account u): a deactivated account is refused, else last_login_at is
\* committed and the user returned.
authenticate_user(u) ==
    IF ~users[u].is_active THEN "AuthenticationError" ELSE "user"

\* get_current_user for a valid access token of account u: HTTPException 401
\* "User account is deactivated" is raised inside the try block and caught by
\* its last clause (except Exception), which answers 500 "Authentication
\* failed"; an active account is returned to the route.
get_current_user(u) ==
    IF ~users[u].is_active THEN "HTTP_500_INTERNAL_SERVER_ERROR" ELSE "user"

\* login_user up to the return of authenticate_user.  The login goes on to
\* create_user_session (another commit) when the account was active.
LoginSelect(u) ==
    /\ login_call = <<>>
    /\ \E k \in 1..MaxSessions : sessions[<<u, k>>] = "none"
    /\ IF authenticate_user(u) = "user"
       THEN /\ login_call' = <<[user_id |-> u]>>
            /\ UNCHANGED auth_result
       ELSE /\ auth_result' = <<[op |-> "login_user", user_id |-> u,
                                 result |-> authenticate_user(u)]>>
            /\ UNCHANGED login_call
    /\ UNCHANGED <<executor, cancel_answered, scratch, accounts, workflow_access,
                   deactivated>>

\* login_user from create_access_token to its return: create_user_session adds
\* the session of a new refresh token; the user row is not read again.
LoginCommit ==
    /\ login_call # <<>>
    /\ LET u == login_call[1].user_id IN
        /\ \E k \in 1..MaxSessions :
             /\ sessions[<<u, k>>] = "none"
             /\ \A j \in 1..(k - 1) : sessions[<<u, j>>] # "none"
             /\ sessions' = [sessions EXCEPT ![<<u, k>>] = "active"]
        /\ auth_result' = <<[op |-> "login_user", user_id |-> u, result |-> "tokens"]>>
    /\ login_call' = <<>>
    /\ UNCHANGED <<executor, cancel_answered, scratch, workflow_access, users, expired,
                   revoked, logout_call, refresh_result, deactivated>>

\* A refresh request with a token that was issued, and its answer.
RefreshRequest(t) ==
    /\ sessions[t] # "none"
    /\ auth_result' = <<[op |-> "refresh_access_token", user_id |-> TokenUser(t),
                         result |-> refresh_access_token(t)]>>
    /\ UNCHANGED <<executor, cancel_answered, scratch, accounts, workflow_access,
                   login_call, deactivated>>

\* A request with an access token issued to account u at an earlier login.
AuthRequest(u) ==
    /\ \E t \in Tokens : TokenUser(t) = u /\ sessions[t] # "none"
    /\ auth_result' = <<[op |-> "get_current_user", user_id |-> u,
                         result |-> get_current_user(u)]>>
    /\ UNCHANGED <<executor, cancel_answered, scratch, accounts, workflow_access,
                   login_call, deactivated>>

\* deactivate_user, delete_user (a soft delete) and activate_user by an active
\* current user who passes _can_modify_user: is_active and, but in delete_user,
\* updated_by are written.  (The routes name the dependency
\* get_current_moderator_user, which auth/dependencies.py does not define; the
\* service functions are modelled for any current user.)
SetActive(current_user, user_id, active, by) ==
    /\ users[current_user].is_active
    /\ can_modify_user(current_user, user_id)
    /\ users' = [users EXCEPT ![user_id] =
                    [role |-> @.role, is_active |-> active, updated_by |-> by]]
    /\ UNCHANGED <<executor, cancel_answered, scratch, workflow_access, sessions, expired,
                   revoked, logout_call, refresh_result, login_call, auth_result>>

DeactivateUser(current_user, user_id) ==
    /\ SetActive(current_user, user_id, FALSE, current_user)
    /\ deactivated' = deactivated \cup {user_id}

DeleteUser(current_user, user_id) ==
    /\ SetActive(current_user, user_id, FALSE, users[user_id].updated_by)
    /\ deactivated' = deactivated \cup {user_id}

ActivateUser(current_user, user_id) ==
    /\ SetActive(current_user, user_id, TRUE, current_user)
    /\ deactivated' = deactivated \ {user_id}

\* The bodies of PUT /users/{user_id} that set is_active and leave the role.
ActiveData == {d \in UpdateData : d.role = "unset"}

NextActive ==
    \/ \E u \in UserIds : LoginSelect(u)
    \/ LoginCommit
    \/ \E t \in Tokens : RefreshRequest(t)
    \/ \E u \in UserIds : AuthRequest(u)
    \/ \E a \in UserIds, u \in UserIds : DeactivateUser(a, u)
    \/ \E a \in UserIds, u \in UserIds : DeleteUser(a, u)
    \/ \E a \in UserIds, u \in UserIds : ActivateUser(a, u)
    \/ \E a \in UserIds, u \in UserIds, d \in ActiveData : UpdateUser(a, u, d)

\* Account 1 is an admin, the others are regular users; nobody is logged in
\* and no workflow is executed.
InitActive ==
    /\ workflow_type = "install" /\ db = NewRow /\ ui_play = FALSE
    /\ InitCalls /\ requests = 0 /\ persist_faults = 0 /\ exit_faults = 0
    /\ cancel_answered = "None" /\ InitScratchFiles /\ InitWorkflowAccess({Owner})
    /\ InitActivation
    /\ users = [u \in UserIds |->
                  [role |-> IF u = 1 THEN "admin" ELSE "user",
                   is_active |-> TRUE, updated_by |-> 0]]
    /\ sessions = [t \in Tokens |-> "none"]
    /\ expired = {}
    /\ revoked = [t \in Tokens |-> "no"]
    /\ logout_call = <<>>
    /\ refresh_result = <<>>

SpecActive == InitActive /\ [][NextActive]_vars

----------------------------------------------------------------------------
(* Properties                                                              *)

\* Call c has committed status running and has not yet committed its outcome.
InPipeline(c) == pc[c] \notin {"idle", "get_workflow", "commit_running",
                               "log_complete", "log_error", "ended"}

\* Call c went through the pipeline (it was not rejected) and has returned or
\* re-raised.
RunEnded(c) == pc[c] = "ended" /\ raised[c] # "WorkflowAlreadyRunningError"

\* The steps of the pipelines that act on the device after the first check.
InteractionSteps == {"reset_home", "open_play_store", "search_game",
                     "click_install", "wait_installation", "launch_game",
                     "wait_load", "take_screenshot", "save_screenshot"}

StepsLogged(c) == {logs[c][k].step_name : k \in 1..Len(logs[c])}

\* C1: execution of a workflow is mutually exclusive: no two calls made with
\* force_restart = false are inside the step pipeline of the workflow at the
\* same time, whatever the interleaving of their suspension points.
C1_MutualExclusion ==
    \A c1, c2 \in Calls :
        (c1 # c2 /\ ~force_restart[c1] /\ ~force_restart[c2])
            => ~(InPipeline(c1) /\ InPipeline(c2))

\* C2: a call made with force_restart = false that finds the status running
\* ends with WorkflowAlreadyRunningError in that very step, and the step
\* changes nothing: not the persisted row, no log, no command list; the
\* rejected call has issued no device command and appended no log entry.
C2_RejectedCallChangesNothing ==
    /\ [](\A c \in Calls :
            raised[c] = "WorkflowAlreadyRunningError"
                => pc[c] = "ended" /\ cmds[c] = <<>> /\ logs[c] = <<>>)
    /\ [][\A c \in Calls :
            (pc[c] = "get_workflow" /\ pc'[c] # pc[c]
             /\ db.status = "running" /\ ~force_restart[c])
                => /\ pc'[c] = "ended"
                   /\ raised'[c] = "WorkflowAlreadyRunningError"
                   /\ db' = db /\ logs' = logs /\ cmds' = cmds
                   /\ ui_play' = ui_play]_vars

\* A call was rejected while the workflow was running.
C2_Witness ==
    \E c \in Calls :
        /\ pc[c] = "ended" /\ raised[c] = "WorkflowAlreadyRunningError"
        /\ db.status = "running"

C4_TerminalStatusFinal ==
    [][db.status \in {"completed", "failed", "cancelled"}
          => db'.status = db.status]_vars

\* C5: an install run whose poll ends without a positive probe does not end
\* completed and does not end failed (it ends timed out).
C5_ExhaustedPollTimesOut ==
    \A c \in Calls :
        (RunEnded(c) /\ workflow_type = "install" /\ raised[c] = "None"
         /\ installation_result[c] \in {"INSTALL_TIMEOUT", "INSTALL_ERROR"})
            => orm[c].status \notin {"completed", "failed"}

\* C6: after a negative probe on a tick before the last one, the poll goes on
\* to the next tick (so that a positive probe on tick k ends it with
\* INSTALL_SUCCESS after exactly k probes).
C6_PollGoesOnAfterNegativeProbe ==
    [][\A c \in Calls :
          (pc[c] = "install.sleep" /\ pc'[c] # pc[c] /\ i[c] + 1 < total_checks)
              => pc'[c] = "install.poll" /\ i'[c] = i[c] + 1]_vars

\* C7: when the UI already shows the Play / Uninstall control once the store
\* page is open, the install step issues no tap and the pipeline goes to its
\* end with ALREADY_INSTALLED, without polling.
C7_AlreadyInstalledShortCircuit ==
    [][\A c \in Calls :
          (pc[c] = "install.click_install" /\ pc'[c] # pc[c] /\ ui_play)
              => /\ cmds'[c] = cmds[c]
                 /\ pc'[c] = "install.complete"]_vars

\* C8: when the device-bridge probe of an install run exits non-zero, the run
\* fails with the emulator-unavailable error: "adb devices" is its only
\* command, no device-interaction step is logged, and it ends with status
\* failed and the emulator-unavailable message.
C8_BridgeProbeFailureFailsRun ==
    \A c \in Calls :
        emulator_status[c] = "ADB command failed"
            => /\ raised[c] = "EmulatorNotAvailableError"
               /\ pc[c] \in {"except_commit", "log_error", "ended"}
               /\ cmds[c] = <<"adb devices">>
               /\ StepsLogged(c) \cap InteractionSteps = {}
               /\ pc[c] = "ended"
                    => /\ orm[c].status = "failed"
                       /\ loaded[c] = orm[c]
                       /\ orm[c].error_message =
                            EmulatorNotAvailableText("ADB command failed")

\* An install run has ended after "adb devices" exited non-zero.
C8_Witness ==
    \E c \in Calls :
        /\ pc[c] = "ended" /\ workflow_type = "install"
        /\ emulator_status[c] = "ADB command failed"
        /\ db.status = "failed"

\* C9: in a screenshot run, when the package list does not hold the game, the
\* run fails with the not-installed error: "pm list packages" is its only
\* command, no screen-interaction step is logged, and it ends with status
\* failed and the not-installed message.
C9_AbsentPackageFailsRun ==
    \A c \in Calls :
        (workflow_type = "screenshot" /\ pm_output[c] = "kgvn absent")
            => /\ raised[c] = "ValueError"
               /\ pc[c] \in {"except_commit", "log_error", "ended"}
               /\ cmds[c] = <<"pm list packages">>
               /\ StepsLogged(c) \cap InteractionSteps = {}
               /\ pc[c] = "ended"
                    => /\ orm[c].status = "failed"
                       /\ loaded[c] = orm[c]
                       /\ orm[c].error_message = "Lien Quan Mobile is not installed"

\* A screenshot run has ended after the package was found absent.
C9_Witness ==
    \E c \in Calls :
        /\ pc[c] = "ended" /\ workflow_type = "screenshot"
        /\ pm_output[c] = "kgvn absent"
        /\ db.status = "failed"

\* The log entry that closes a run of the given terminal status.
ClosingEntry(status) ==
    IF status = "completed"
    THEN [log_level |-> "INFO", step_name |-> "execution_complete"]
    ELSE [log_level |-> "ERROR", step_name |-> "execution_error"]

InstallOnlySteps == {"check_emulator", "open_play_store", "search_game",
                     "click_install", "wait_installation"}
ScreenshotOnlySteps == {"check_installation", "launch_game", "wait_load",
                        "take_screenshot", "save_screenshot"}

\* Where a call stands inside the screenshot pipeline.
ScreenshotPcs == {"screenshot.check_installation", "screenshot.reset_home",
                  "screenshot.launch_game", "screenshot.wait_load",
                  "screenshot.take_screenshot", "screenshot.save_screenshot",
                  "screenshot.complete"}

\* C11: in a workflow of type both, the install pipeline has returned before the
\* first step of the screenshot pipeline starts (every entry of an install step
\* comes before every entry of a screenshot step), the screenshot pipeline does
\* not start when the install pipeline raised, the steps of both sub-runs are
\* entries of the one log of the run, and the status is completed only after
\* both sub-runs returned.
C11_BothRunsInstallThenScreenshot ==
    workflow_type = "both" =>
      \A c \in Calls :
        /\ pc[c] \in ScreenshotPcs
             => /\ installation_result[c] # "None"
                /\ "workflow_complete" \in StepsLogged(c)
        /\ \A j, k \in 1..Len(logs[c]) :
             (logs[c][j].step_name \in InstallOnlySteps
              /\ logs[c][k].step_name \in ScreenshotOnlySteps) => j < k
        /\ (raised[c] # "None" /\ installation_result[c] = "None")
             => /\ StepsLogged(c) \cap ScreenshotOnlySteps = {}
                /\ \A k \in 1..Len(cmds[c]) : cmds[c][k] # "pm list packages"
        /\ orm[c].status = "completed"
             => /\ InstallOnlySteps \cup ScreenshotOnlySteps \subseteq StepsLogged(c)
                /\ Cardinality({k \in 1..Len(logs[c]) :
                                  logs[c][k].step_name = "workflow_complete"}) = 2
                /\ installation_result[c] # "None"
                /\ screenshot_file[c] \in {"empty", "image"}

\* A run of type both has ended completed.
C11_Witness ==
    \E c \in Calls :
        /\ workflow_type = "both" /\ RunEnded(c)
        /\ orm[c].status = "completed" /\ db.status = "completed"
        /\ Len(logs[c]) > Cardinality(InstallOnlySteps \cup ScreenshotOnlySteps)

\* The values that the message of a log entry is formatted from, by the step
\* that writes the entry; the other messages are fixed texts.
MessageArgs(step_name) ==
    IF step_name = "execution_start" THEN {"workflow.workflow_type"}
    ELSE IF step_name = "execution_complete" THEN {"result"}
    ELSE IF step_name = "execution_error" THEN {"str(e)"}
    ELSE IF step_name = "workflow_complete" THEN {"execution_time"}
    ELSE IF step_name = "installation_progress" THEN {"i", "check_interval"}
    ELSE {}

\* Whether a log entry records that force_restart was used: its step is named
\* after it or its message is formatted from it.
RecordsOverride(entry) ==
    \/ entry.step_name = "force_restart"
    \/ "force_restart" \in MessageArgs(entry.step_name)

\* C12: a call made with force_restart = true on a workflow whose status is
\* running is not rejected (the pipeline starts), and once its first log entry
\* is written the log of the run records the use of the override.  (Stated for
\* the one request on a workflow left running, InitRunning.)
C12_OverrideBypassesAndIsLogged ==
    \A c \in Calls :
        (force_restart[c] /\ pc[c] \notin {"idle", "get_workflow"})
            => /\ raised[c] # "WorkflowAlreadyRunningError"
               /\ pc[c] \notin {"commit_running", "log_start"}
                    => \E k \in 1..Len(logs[c]) : RecordsOverride(logs[c][k])

\* C13: once a cancel request for a running workflow has been answered
\* "Workflow cancelled successfully", the run starts no further step (no
\* further device command, no further step entry) and, when it has ended, the
\* status of the workflow is cancelled.
C13_CancelStopsRun ==
    /\ [](\A c \in Calls :
            (cancel_answered = "running" /\ RunEnded(c)) => db.status = "cancelled")
    /\ [][cancel_answered = "running"
            => \A c \in Calls :
                 /\ cmds'[c] = cmds[c]
                 /\ StepsLogged(c) \cap InteractionSteps
                      = {logs'[c][k].step_name : k \in 1..Len(logs'[c])}
                          \cap InteractionSteps]_vars

\* C14: the UI probe called twice in immediate succession, the UI being the
\* same and the commands ending the same way both times, returns the same
\* boolean both times, whatever scratch files the first call found and left.
C14_ProbeIdempotent ==
    Len(probe_results) = 2 => probe_results[1].result = probe_results[2].result

\* C16: a UI probe whose dump or pull did not succeed reports UIProbeFailed; it
\* does not return a boolean as a probe does whose dump was obtained.
C16_FailedProbeIsReported ==
    (probe_results # <<>>
     /\ (last_outcomes[2] # "ok" \/ last_outcomes[3] # "ok"))
        => \A k \in 1..Len(probe_results) : probe_results[k].raised = "UIProbeFailed"

\* C17: once a UI probe has returned the local file it pulled the dump into is
\* gone, and once a screenshot capture has returned or raised the device's
\* scratch screenshot is gone.
C17_ScratchFilesRemoved ==
    /\ probe_results # <<>> => temp_file = "absent"
    /\ captured => ~device_shot

\* C15: the capture raises ScreenshotCaptureError whenever it leaves no local
\* file (the pull failed) or an empty one, so that a run that took a screenshot
\* ends completed only with a stored file of more than zero bytes.
C15_CaptureFailureIsRaised ==
    \A c \in Calls :
        /\ screenshot_file[c] \in {"missing", "empty"}
             => raised[c] = "ScreenshotCaptureError"
        /\ (RunEnded(c) /\ orm[c].status = "completed" /\ workflow_type # "install")
             => screenshot_file[c] = "image"

\* C18 as stated: once a logout_user call with a refresh token has succeeded,
\* every refresh_access_token call with that token ends with InvalidTokenError;
\* once a logout_user call without a token has succeeded, so does every refresh
\* with the token of a session its user had before; an inactive session never
\* becomes active again.
C18_LogoutEndsRefresh ==
    /\ [](\A t \in Tokens :
            revoked[t] # "no" => refresh_access_token(t) = "InvalidTokenError")
    /\ [][\A t \in Tokens : sessions[t] = "inactive" => sessions'[t] = "inactive"]_vars

\* C18 amended: the same for a logout_user call whose token is the token of a
\* session of the user who logs out.
C18_OwnLogoutEndsRefresh ==
    /\ [](\A t \in Tokens :
            revoked[t] = "by_owner" => refresh_access_token(t) = "InvalidTokenError")
    /\ [][\A t \in Tokens : sessions[t] = "inactive" => sessions'[t] = "inactive"]_vars

\* A refresh was refused after its user logged that session out, another
\* session of the user going on.
C18_Witness ==
    \E t \in Tokens :
        /\ revoked[t] = "by_owner" /\ t \notin expired
        /\ refresh_result = <<[refresh_token |-> t, result |-> "InvalidTokenError"]>>
        /\ \E other \in Tokens : TokenUser(other) = TokenUser(t)
                                  /\ sessions[other] = "active"

\* C19: the role of an account changes only by a request of another account
\* whose role is admin; update_user and change_user_role calls by regular users
\* or moderators change no role, and no account changes its own role.  (Every
\* call that changes a row records its caller in updated_by.)
C19_RoleChangedOnlyByAnotherAdmin ==
    [][\A u \in UserIds :
          users'[u].role # users[u].role =>
              /\ users'[u].updated_by # u
              /\ users[users'[u].updated_by].role = "admin"]_vars

\* C20: get_workflow, update_workflow and execute_workflow called by a user who
\* does not own the workflow raise WorkflowNotFoundError, issue no device
\* command and leave the workflow and its log unchanged.
C20_OthersFindNothing ==
    /\ [](\A c \in Calls :
            (~(call_user[c] = Owner) /\ pc[c] \notin {"idle", "get_workflow"}) =>
                /\ pc[c] = "ended" /\ raised[c] = "WorkflowNotFoundError"
                /\ cmds[c] = <<>> /\ logs[c] = <<>>)
    /\ [](access # <<>> /\ ~(access[1].user_id = Owner)
            => access[1].result = "WorkflowNotFoundError")
    /\ [][(\/ \E c \in Calls : ~(call_user[c] = Owner) /\ pc[c] = "get_workflow"
                                  /\ pc'[c] # pc[c]
           \/ access' # access /\ ~(access'[1].user_id = Owner))
          => UNCHANGED <<db, cmds, logs, updated_at, update_logs, ui_play>>]_vars

\* Another user's execute request has ended with WorkflowNotFoundError and the
\* same user's update was refused, on a workflow its owner has updated and that
\* is running.
C20_Witness ==
    /\ \E c \in Calls : ~(call_user[c] = Owner) /\ raised[c] = "WorkflowNotFoundError"
                         /\ pc[c] = "ended"
    /\ access = <<[op |-> "update_workflow", user_id |-> 2,
                   result |-> "WorkflowNotFoundError"]>>
    /\ updated_at > 0 /\ db.status = "running"

\* C21: the boolean a UI probe returns is computed from a dump generated on the
\* device during that same call; when removing the old dump and generating the
\* new one both fail, the probe does not pull and read the dump an earlier probe
\* left on the device.
C21_ProbeReadsFreshDump ==
    \A k \in 1..Len(probe_results) :
        /\ probe_results[k].read_from \in {"fresh", "none"}
        /\ (last_outcomes[1] # "ok" /\ last_outcomes[2] # "ok")
              => probe_results[k].read_from # "stale"

\* Where a call stands inside the loop of _wait_for_installation.
PollPcs == {"install.poll", "install.sleep"}

\* C22: the install-completion poll always terminates: it makes at most
\* INSTALLATION_TIMEOUT / 5 = 60 probes, a probe that follows another comes
\* after the sleep of one interval, the loop is left at the first positive
\* probe and no probe follows a positive one.
C22_PollTerminates ==
    /\ [](\A c \in Calls :
            /\ Len(probes[c]) <= total_checks
            /\ total_checks = 60
            /\ i[c] < total_checks
            /\ \A k \in 1..(Len(probes[c]) - 1) : ~probes[c][k]
            /\ (probes[c] # <<>> /\ probes[c][Len(probes[c])])
                  => pc[c] \notin PollPcs)
    /\ [][\A c \in Calls :
            /\ probes'[c] # probes[c]
                  => /\ pc[c] = "install.poll"
                     /\ pc'[c] \in {"install.sleep", "install.complete"}
            /\ (pc'[c] = "install.poll" /\ pc[c] # "install.poll")
                  => pc[c] \in {"install.wait_installation", "install.sleep"}
            /\ (pc'[c] = "install.poll" /\ pc[c] = "install.sleep")
                  => i'[c] = i[c] + 1]_vars
    /\ \A c \in Calls : (pc[c] \in PollPcs) ~> (pc[c] \notin PollPcs)

\* A run has ended whose poll was left at a positive probe.
C22_Witness ==
    \E c \in Calls :
        /\ RunEnded(c) /\ probes[c] = <<TRUE>>
        /\ installation_result[c] = "INSTALL_SUCCESS"
        /\ db.status = "completed"

\* constants.py, WORKFLOW_STEPS: the named steps of the two pipelines; a
\* workflow of type both runs the one list and then the other.
InstallSteps == <<"check_emulator", "reset_home", "open_play_store",
                  "search_game", "click_install", "wait_installation">>
ScreenshotSteps == <<"check_installation", "reset_home", "launch_game",
                     "wait_load", "take_screenshot", "save_screenshot">>
StepNames == {InstallSteps[k] : k \in 1..Len(InstallSteps)}
                 \cup {ScreenshotSteps[k] : k \in 1..Len(ScreenshotSteps)}

WORKFLOW_STEPS(type) ==
    IF type = "install" THEN InstallSteps
    ELSE IF type = "screenshot" THEN ScreenshotSteps
    ELSE InstallSteps \o ScreenshotSteps

\* Whether a log row is the row that a named step writes when it is entered.
IsStepEntry(entry) == entry.step_name \in StepNames

\* The named steps call c has entered, in order (each writes its row first).
StepsEntered(c) ==
    LET rows == SelectSeq(logs[c], IsStepEntry)
    IN  [k \in 1..Len(rows) |-> rows[k].step_name]

IsPrefix(s, t) == Len(s) <= Len(t) /\ s = SubSeq(t, 1, Len(s))

\* C23: within one run the named steps are entered in the fixed order of the
\* workflow kind, each at most once, and the steps entered are always a prefix
\* of the kind's list (for a workflow of type both: of the install list
\* followed by the screenshot list).
C23_StepsInFixedOrder ==
    \A c \in Calls :
        LET entered == StepsEntered(c) IN
        /\ IsPrefix(entered, WORKFLOW_STEPS(workflow_type))
        /\ workflow_type # "both"
              => Cardinality({entered[k] : k \in 1..Len(entered)}) = Len(entered)

\* An install run has ended with the exception of its third step, the first
\* three steps entered and no other.
C23_Witness ==
    \E c \in Calls :
        /\ workflow_type = "install" /\ RunEnded(c) /\ raised[c] = "TimeoutExpired"
        /\ StepsEntered(c) = <<"check_emulator", "reset_home", "open_play_store">>

\* C25: in an install run that has gone on to poll, the tap at the install
\* control (2117, 350) has been issued three times before the first probe,
\* whatever the single taps' exit status.
C25_ThreeInstallTaps ==
    \A c \in Calls :
        (pc[c] \in PollPcs \/ installation_result[c] # "None")
            => Cardinality({k \in 1..Len(cmds[c]) : cmds[c][k] = "tap 2117 350"}) = 3

\* C26: an install run, or a run of type both, ends with status completed only
\* if a UI probe of that run returned positive; a poll that ends without a
\* detection or with an exception inside it does not end completed.
C26_CompletedOnlyAfterDetection ==
    \A c \in Calls :
        (RunEnded(c) /\ workflow_type \in {"install", "both"}
         /\ orm[c].status = "completed")
            => \E k \in 1..Len(probes[c]) : probes[c][k]

\* C24: an input command (home key, store launch, search tap, text, enter,
\* install tap, app launch) that exits non-zero is fatal to the run: the step
\* it belongs to is left for the except clause, no later step is executed, and
\* the run ends failed.
C24_NonZeroExitIsFatal ==
    /\ [](\A c \in Calls :
            (RunEnded(c) /\ exit_faults < MaxExitFaults) => orm[c].status = "failed")
    /\ [][exit_faults' < exit_faults
            => \A c \in Calls : pc'[c] # pc[c] => pc'[c] = "except_commit"]_vars

\* C27: whenever the persisted status of the workflow is running, an
\* execute_workflow call for it is in progress; update_workflow does not set the
\* status to running.
C27_RunningMeansExecuting ==
    /\ [](db.status = "running" => \E c \in Calls : pc[c] \notin {"idle", "ended"})
    /\ [][(access' # access /\ db.status # "running") => db'.status # "running"]_vars

\* C28: completed_at of the workflow is set if and only if its status is
\* completed or failed; a workflow that is pending or running has none, also
\* when it is executed again after an earlier run.
C28_CompletedAtIffTerminal ==
    (db.completed_at # NULL) <=> (db.status \in {"completed", "failed"})

\* C29: from the moment deactivate_user or delete_user makes an account
\* inactive until activate_user succeeds for it, no login, no
\* refresh_access_token and no request authenticated with a previously issued
\* access token succeeds for that account: every step that answers such a
\* request with a success answers it for an account that is not in that
\* interval.
C29_NoAuthWhileDeactivated ==
    [][(auth_result' # auth_result /\ auth_result'[1].result \in AuthSuccess)
          => auth_result'[1].user_id \notin deactivated]_vars

====
